---- MODULE Spec2Model ----
(***************************************************************************)
(* Model of scapy/config.py (pupy patch): the configuration object, its    *)
(* descriptor-backed settings, the field-group registry, the numeric       *)
(* layer registry, the formatted dump and the crypto gate.                 *)
(***************************************************************************)
EXTENDS Integers, Sequences, FiniteSets, TLC

VARIABLES
  fields,      \* ConfigFieldList.fields
  layers,      \* ConfigFieldList.layers
  flLast,      \* the last ConfigFieldList call: operation, arguments, fields before it
  num2layer,   \* Num2Layer.num2layer
  layer2num,   \* Num2Layer.layer2num
  numLast,     \* the last Num2Layer call and its result
  numPrev,     \* the Num2Layer call before the last one
  inst,        \* each configuration object's instance state (its __dict__)
  threshold,   \* the level of the logger log_scapy
  ps1,         \* sys.ps1, as last rendered by _prompt_changer
  lastWrite,   \* per object and intercepted setting: the value last written through the descriptor
  cLast,       \* the last call on a configuration object, with its arguments and result
  trace,       \* the calls the last operation made: hook callbacks, log_scapy.setLevel, wrapped bodies
  gated,       \* the functions decorated by crypto_validator, each with conf.crypto_valid as it was then
  dumpCls,     \* the dumped object's class __dict__: name -> repr of the value
  dumpInst,    \* the dumped object's instance __dict__: name -> repr of the value
  dumpOut,     \* what __str__ returned, with the (name, rendered value) of each line
  dumpDone     \* whether __str__ has been called

flVars   == <<fields, layers, flLast>>
numVars  == <<num2layer, layer2num, numLast, numPrev>>
confVars == <<inst, threshold, ps1, lastWrite, cLast, trace, gated>>
dumpVars == <<dumpCls, dumpInst, dumpOut, dumpDone>>
vars     == <<flVars, numVars, confVars, dumpVars>>

\* Longest argument tuple passed to add(*flds) / remove(*flds).
MaxArgs == 2

TuplesUpTo(S, n) == UNION {[1..k -> S] : k \in 0..n}
Range(s) == {s[i] : i \in DOMAIN s}

\* A Python dict is a function on its keys; d[k] = v adds or overwrites one key.
EmptyDict == [x \in {} |-> 0]
DictSet(d, k, v) == [x \in DOMAIN d \cup {k} |-> IF x = k THEN v ELSE d[x]]

----------------------------------------------------------------------------
(* ConfigFieldList                                                          *)

\* The objects handed to add/remove, with the attributes each one carries.
\* f1..f3 are fields (they carry an `owners` list, possibly empty or with a
\* repeated owner); x1, x2 are objects of another kind, without `owners`.
ObjAttrs ==
  [f1 |-> [owners |-> <<"IP">>],
   f2 |-> [owners |-> <<"IP", "TCP">>],
   f3 |-> [owners |-> <<"UDP", "UDP">>],
   f4 |-> [owners |-> <<>>],
   x1 |-> [name |-> "x1"],
   x2 |-> [name |-> "x2"]]

Objects == DOMAIN ObjAttrs

\* hasattr(f, "owners")
_is_field(f) == "owners" \in DOMAIN ObjAttrs[f]

\* {owner for f in self.fields for owner in f.owners}
_recalc_layer_list(fs) == UNION {Range(ObjAttrs[f].owners) : f \in fs}

\* A faulty add: `=` where the code has `|=`.
add_replacing(flds) ==
  LET new == {f \in Range(flds) : _is_field(f)}
  IN /\ fields' = new
     /\ layers' = _recalc_layer_list(new)
     /\ flLast' = [op |-> "add", args |-> flds, pre |-> fields, preLayers |-> layers]
     /\ UNCHANGED <<numVars, confVars, dumpVars>>

\* self.fields |= {f for f in flds if self._is_field(f)}; self._recalc_layer_list()
add(flds) ==
  LET new == fields \cup {f \in Range(flds) : _is_field(f)}
  IN /\ fields' = new
     /\ layers' = _recalc_layer_list(new)
     /\ flLast' = [op |-> "add", args |-> flds, pre |-> fields, preLayers |-> layers]
     /\ UNCHANGED <<numVars, confVars, dumpVars>>

\* A faulty remove: the members are taken out, the layers not recomputed.
remove_stale(flds) ==
  LET new == fields \ Range(flds)
  IN /\ fields' = new
     /\ layers' = layers
     /\ flLast' = [op |-> "remove", args |-> flds, pre |-> fields, preLayers |-> layers]
     /\ UNCHANGED <<numVars, confVars, dumpVars>>

\* self.fields -= set(flds); self._recalc_layer_list()
remove(flds) ==
  LET new == fields \ Range(flds)
  IN /\ fields' = new
     /\ layers' = _recalc_layer_list(new)
     /\ flLast' = [op |-> "remove", args |-> flds, pre |-> fields, preLayers |-> layers]
     /\ UNCHANGED <<numVars, confVars, dumpVars>>

InitFields ==
  /\ fields = {}
  /\ layers = {}
  /\ flLast = [op |-> "init", args |-> <<>>, pre |-> {}, preLayers |-> {}]

NextFields ==
  \/ \E flds \in TuplesUpTo(Objects, MaxArgs) : add(flds)
  \/ \E flds \in TuplesUpTo(Objects, MaxArgs) : remove(flds)

----------------------------------------------------------------------------
(* Num2Layer                                                                *)

Codes == {6, 17, 1}
Types == {"TCP", "UDP", "ICMP"}

\* A key handed to __getitem__ / __contains__ / get: either a layer class
\* (an instance of Packet_metaclass) or anything else, used as a number.
ByCode(c) == [isLayer |-> FALSE, code |-> c, layer |-> "-"]
ByType(t) == [isLayer |-> TRUE, code |-> 0, layer |-> t]

\* A faulty register_num2layer: the dict is rebuilt with the one entry.
register_num2layer_reset(n2l, num, layer) == DictSet(EmptyDict, num, layer)

\* self.num2layer[num] = layer
register_num2layer(n2l, num, layer) == DictSet(n2l, num, layer)

\* A faulty register_layer2num: the reverse entry is not recorded.
register_layer2num_skip(l2n, num, layer) == l2n

\* self.layer2num[layer] = num
register_layer2num(l2n, num, layer) == DictSet(l2n, layer, num)

\* isinstance(item, Packet_metaclass) selects the direction; a missing key
\* raises KeyError.
getitem(n2l, l2n, item) ==
  IF item.isLayer
  THEN IF item.layer \in DOMAIN l2n
       THEN [raised |-> "-", code |-> l2n[item.layer], layer |-> "-"]
       ELSE [raised |-> "KeyError", code |-> 0, layer |-> "-"]
  ELSE IF item.code \in DOMAIN n2l
       THEN [raised |-> "-", code |-> 0, layer |-> n2l[item.code]]
       ELSE [raised |-> "KeyError", code |-> 0, layer |-> "-"]

NoCall == [op |-> "init", code |-> 0, layer |-> "-"]

\* register_num2layer(num, layer); register_layer2num(num, layer)
register(num, layer) ==
  /\ num2layer' = register_num2layer(num2layer, num, layer)
  /\ layer2num' = register_layer2num(layer2num, num, layer)
  /\ numLast' = [op |-> "register", code |-> num, layer |-> layer]
  /\ numPrev' = numLast
  /\ UNCHANGED <<flVars, confVars, dumpVars>>

InitNum ==
  /\ num2layer = EmptyDict
  /\ layer2num = EmptyDict
  /\ numLast = NoCall
  /\ numPrev = NoCall

NextNum == \E c \in Codes, t \in Types : register(c, t)


----------------------------------------------------------------------------
(* ConfClass, Interceptor, LogLevel, Conf                                   *)

\* The configuration objects: the global `conf` (line 281), a second Conf
\* instance `cnf` that callers write to and configure, and `new`, a Conf()
\* constructed only to be handed to configure and never written.
Mutable == {"conf", "cnf"}
Objs    == Mutable \cup {"new"}

\* Class-level defaults of the plain settings modelled (Conf.crypto_valid).
ClassDefaults == [crypto_valid |-> FALSE]
PlainAttrs == DOMAIN ClassDefaults

\* Interceptor("prompt", ">>> ", _prompt_changer) and
\* Interceptor("color_theme", NoTheme(), _prompt_changer): self.default.
InterceptorDefault == [prompt |-> ">>> ", color_theme |-> "NoTheme"]
InterceptedAttrs == DOMAIN InterceptorDefault

\* self.intname = "_intercepted_%s" % name
intname(name) == "_intercepted_" \o name

\* Values written to the settings. "None" is a color theme object without a
\* prompt method; -1 stands for a value log_scapy.setLevel rejects.
PromptVals == {">>> ", "$ "}
ThemeVals  == {"NoTheme", "None"}
ValidLevels == {10, 30}
LevelInputs == ValidLevels \cup {-1}
WriteVals(name) == IF name = "prompt" THEN PromptVals ELSE ThemeVals

\* Interceptor.__get__: materialise the default on first read, return the
\* stored value. Yields the owner's new instance state and the value read.
Interceptor__get__(d, name) ==
  LET d1 == IF intname(name) \in DOMAIN d
            THEN d
            ELSE DictSet(d, intname(name), InterceptorDefault[name])
  IN [dict |-> d1, value |-> d1[intname(name)]]

\* hasattr(theme, "prompt"): the theme objects that can render a prompt.
HasPrompt(theme) == theme # "None"

\* _prompt_changer(attr, val): sys.ps1 = conf.color_theme.prompt(conf.prompt),
\* any exception swallowed. Reads both settings on the global conf, in that
\* order; a theme without `prompt` fails before conf.prompt is read.
_prompt_changer(confDict, oldPs1) ==
  LET g1 == Interceptor__get__(confDict, "color_theme")
  IN IF ~HasPrompt(g1.value)
     THEN [dict |-> g1.dict, ps1 |-> oldPs1]
     ELSE LET g2 == Interceptor__get__(g1.dict, "prompt")
          IN [dict |-> g2.dict, ps1 |-> [theme |-> g1.value, prompt |-> g2.value]]

\* What getattr(obj, self.intname) yields at some point of a handler.
Stored(d, name) == IF intname(name) \in DOMAIN d THEN d[intname(name)] ELSE "<unset>"

\* A faulty __set__: the hook runs before the value is stored.
Interceptor__set__hook_first(obj, name, val) ==
  LET h  == _prompt_changer(inst["conf"], ps1)
      i1 == [inst EXCEPT !["conf"] = h.dict]
      i2 == [i1 EXCEPT ![obj] = DictSet(@, intname(name), val)]
  IN /\ inst' = i2
     /\ ps1' = h.ps1
     /\ trace' = <<[call |-> "hook", name |-> name, val |-> val,
                    readable |-> Stored(inst[obj], name)]>>
     /\ lastWrite' = [lastWrite EXCEPT ![obj][name] = val]
     /\ cLast' = [op |-> "Interceptor.__set__", obj |-> obj, name |-> name, val |-> val]
     /\ UNCHANGED <<threshold, gated, flVars, numVars, dumpVars>>

\* Interceptor.__set__: setattr(obj, self.intname, val), then
\* self.hook(self.name, val, *self.args, **self.kargs).
Interceptor__set__(obj, name, val) ==
  LET i1 == [inst EXCEPT ![obj] = DictSet(@, intname(name), val)]
      h  == _prompt_changer(i1["conf"], ps1)
  IN /\ inst' = [i1 EXCEPT !["conf"] = h.dict]
     /\ ps1' = h.ps1
     /\ trace' = <<[call |-> "hook", name |-> name, val |-> val,
                    readable |-> Stored(i1[obj], name)]>>
     /\ lastWrite' = [lastWrite EXCEPT ![obj][name] = val]
     /\ cLast' = [op |-> "Interceptor.__set__", obj |-> obj, name |-> name, val |-> val]
     /\ UNCHANGED <<threshold, gated, flVars, numVars, dumpVars>>

\* Reading an intercepted setting: obj.prompt, obj.color_theme.
ReadIntercepted(obj, name) ==
  LET g == Interceptor__get__(inst[obj], name)
  IN /\ inst' = [inst EXCEPT ![obj] = g.dict]
     /\ trace' = <<>>
     /\ cLast' = [op |-> "Interceptor.__get__", obj |-> obj, name |-> name, val |-> g.value]
     /\ UNCHANGED <<threshold, ps1, lastWrite, gated, flVars, numVars, dumpVars>>

\* log_scapy.setLevel(val): accepted levels become the threshold, anything
\* else raises.
setLevelAccepts(val) == val \in ValidLevels

\* LogLevel.__get__: return obj._logLevel (AttributeError when never stored).
LogLevel__get__(d) ==
  IF "_logLevel" \in DOMAIN d
  THEN [raised |-> "-", val |-> d["_logLevel"]]
  ELSE [raised |-> "AttributeError", val |-> 0]

\* A faulty __set__: the level is stored, the logger not told.
LogLevel__set__store_only(obj, val) ==
  /\ inst' = [inst EXCEPT ![obj] = DictSet(@, "_logLevel", val)]
  /\ threshold' = threshold
  /\ trace' = <<>>
  /\ cLast' = [op |-> "LogLevel.__set__", obj |-> obj, val |-> val, raised |-> "-"]
  /\ UNCHANGED <<ps1, lastWrite, gated, flVars, numVars, dumpVars>>

\* LogLevel.__set__: log_scapy.setLevel(val); obj._logLevel = val.
LogLevel__set__(obj, val) ==
  IF setLevelAccepts(val)
  THEN /\ threshold' = val
       /\ inst' = [inst EXCEPT ![obj] = DictSet(@, "_logLevel", val)]
       /\ trace' = <<[call |-> "setLevel", level |-> val]>>
       /\ cLast' = [op |-> "LogLevel.__set__", obj |-> obj, val |-> val, raised |-> "-"]
       /\ UNCHANGED <<ps1, lastWrite, gated, flVars, numVars, dumpVars>>
  ELSE /\ trace' = <<[call |-> "setLevel", level |-> val]>>
       /\ cLast' = [op |-> "LogLevel.__set__", obj |-> obj, val |-> val, raised |-> "ValueError"]
       /\ UNCHANGED <<inst, threshold, ps1, lastWrite, gated, flVars, numVars, dumpVars>>

\* obj.crypto_valid = val: a plain setting goes into the instance state.
SetPlain(obj, name, val) ==
  /\ inst' = [inst EXCEPT ![obj] = DictSet(@, name, val)]
  /\ trace' = <<>>
  /\ cLast' = [op |-> "setattr", obj |-> obj, name |-> name, val |-> val]
  /\ UNCHANGED <<threshold, ps1, lastWrite, gated, flVars, numVars, dumpVars>>

\* getattr(obj, name) on a Conf instance: the class's data descriptors come
\* first, then the instance state, then the class attribute.
getattr(d, name) ==
  IF name = "logLevel" THEN LogLevel__get__(d)
  ELSE IF name \in InterceptedAttrs
       THEN [raised |-> "-", val |-> Interceptor__get__(d, name).value]
  ELSE IF name \in DOMAIN d THEN [raised |-> "-", val |-> d[name]]
  ELSE IF name \in DOMAIN ClassDefaults THEN [raised |-> "-", val |-> ClassDefaults[name]]
  ELSE [raised |-> "AttributeError", val |-> 0]

\* A faulty configure: only the names without a leading underscore are copied.
configure_public_only(self, cnf) ==
  /\ inst' = [inst EXCEPT ![self] = [k \in DOMAIN inst[cnf] \cap PlainAttrs |-> inst[cnf][k]]]
  /\ trace' = <<>>
  /\ cLast' = [op |-> "configure", obj |-> self, other |-> cnf, preKeys |-> DOMAIN inst[self]]
  /\ UNCHANGED <<threshold, ps1, lastWrite, gated, flVars, numVars, dumpVars>>

\* A faulty configure: the level is assigned through the descriptor.
configure_by_assignment(self, cnf) ==
  LET lvl == LogLevel__get__(inst[cnf])
  IN /\ inst' = [inst EXCEPT ![self] = inst[cnf]]
     /\ threshold' = IF lvl.raised = "-" THEN lvl.val ELSE threshold
     /\ trace' = IF lvl.raised = "-" THEN <<[call |-> "setLevel", level |-> lvl.val]>> ELSE <<>>
     /\ cLast' = [op |-> "configure", obj |-> self, other |-> cnf, preKeys |-> DOMAIN inst[self]]
     /\ UNCHANGED <<ps1, lastWrite, gated, flVars, numVars, dumpVars>>

\* ConfClass.configure: self.__dict__ = cnf.__dict__.copy()
configure(self, cnf) ==
  /\ inst' = [inst EXCEPT ![self] = inst[cnf]]
  /\ trace' = <<>>
  /\ cLast' = [op |-> "configure", obj |-> self, other |-> cnf, preKeys |-> DOMAIN inst[self]]
  /\ UNCHANGED <<threshold, ps1, lastWrite, gated, flVars, numVars, dumpVars>>

\* After import: conf = Conf(); conf.logLevel = 30. The other instances are
\* as constructed, with empty instance state.
InitConf ==
  /\ inst = [o \in Objs |-> IF o = "conf" THEN DictSet(EmptyDict, "_logLevel", 30) ELSE EmptyDict]
  /\ threshold = 30
  /\ ps1 = [theme |-> "-", prompt |-> "-"]
  /\ lastWrite = [o \in Mutable |-> [a \in InterceptedAttrs |-> "<none>"]]
  /\ cLast = [op |-> "import"]
  /\ trace = <<>>
  /\ gated = EmptyDict

\* Configuration objects written, read through their descriptors and
\* configured from one another.
NextConf ==
  \/ \E o \in Mutable : Interceptor__set__(o, "prompt", "$ ")
  \/ \E o \in Mutable : ReadIntercepted(o, "prompt")
  \/ \E o \in Mutable, v \in LevelInputs : LogLevel__set__(o, v)
  \/ \E o \in Mutable, v \in BOOLEAN : SetPlain(o, "crypto_valid", v)
  \/ \E o \in Mutable, c \in Objs : configure(o, c)

\* Reads and writes of the intercepted settings only.
NextIntercept ==
  \/ \E o \in Mutable, a \in InterceptedAttrs : \E v \in WriteVals(a) : Interceptor__set__(o, a, v)
  \/ \E o \in Mutable, a \in InterceptedAttrs : ReadIntercepted(o, a)


----------------------------------------------------------------------------
(* crypto_validator                                                         *)

\* The functions handed to the decorator, and the argument tuples of calls.
Funcs == {"count", "total"}
ArgTuples == {<<>>, <<1>>, <<2>>, <<1, 2>>}

RECURSIVE Sum(_)
Sum(s) == IF s = <<>> THEN 0 ELSE s[1] + Sum(Tail(s))

\* func(*args, **kwargs): what the wrapped function returns.
func(f, args) == IF f = "count" THEN Len(args) ELSE Sum(args)

\* crypto_validator(func): defines func_in and returns it; nothing is
\* evaluated yet. `gated` remembers the flag at this moment.
crypto_validator(f) ==
  /\ gated' = DictSet(gated, f, getattr(inst["conf"], "crypto_valid").val)
  /\ trace' = <<>>
  /\ cLast' = [op |-> "crypto_validator", func |-> f]
  /\ UNCHANGED <<inst, threshold, ps1, lastWrite, flVars, numVars, dumpVars>>

\* A faulty gate: the flag is read once, at decoration.
func_in_flag_when_wrapped(f, args) ==
  /\ f \in DOMAIN gated
  /\ IF ~gated[f]
     THEN /\ trace' = <<>>
          /\ cLast' = [op |-> "func_in", func |-> f, args |-> args,
                       raised |-> "ImportError", result |-> 0]
     ELSE /\ trace' = <<[call |-> "body", func |-> f, args |-> args]>>
          /\ cLast' = [op |-> "func_in", func |-> f, args |-> args,
                       raised |-> "-", result |-> func(f, args)]
  /\ UNCHANGED <<inst, threshold, ps1, lastWrite, gated, flVars, numVars, dumpVars>>

\* func_in(*args, **kwargs): if not conf.crypto_valid: raise ImportError;
\* return func(*args, **kwargs).
func_in(f, args) ==
  /\ f \in DOMAIN gated
  /\ IF ~getattr(inst["conf"], "crypto_valid").val
     THEN /\ trace' = <<>>
          /\ cLast' = [op |-> "func_in", func |-> f, args |-> args,
                       raised |-> "ImportError", result |-> 0]
     ELSE /\ trace' = <<[call |-> "body", func |-> f, args |-> args]>>
          /\ cLast' = [op |-> "func_in", func |-> f, args |-> args,
                       raised |-> "-", result |-> func(f, args)]
  /\ UNCHANGED <<inst, threshold, ps1, lastWrite, gated, flVars, numVars, dumpVars>>

\* The capability flag set on, and configured into, the global conf, and
\* functions decorated and called.
NextGate ==
  \/ \E o \in Mutable, v \in BOOLEAN : SetPlain(o, "crypto_valid", v)
  \/ \E o \in Mutable, c \in Objs : configure(o, c)
  \/ \E f \in Funcs : crypto_validator(f)
  \/ \E f \in Funcs, args \in ArgTuples : func_in(f, args)


----------------------------------------------------------------------------
(* ConfClass.__str__                                                        *)

\* Strings are sequences of character codes; these are the ones the code
\* names: " " (join), "\n" and "=" (the line format), "." (the ellipsis),
\* "_" (the private-name test), and "\t" among the blanks split() skips.
SP == 32
TAB == 9
NL == 10
DOT == 46
EQ == 61
UNDERSCORE == 95

Rep(c, n) == [i \in 1..n |-> c]
Max(a, b) == IF a >= b THEN a ELSE b
Min(a, b) == IF a <= b THEN a ELSE b

\* Largest number of attributes the dumped object's class declares.
MaxAttrs == 2

\* Attribute names: short, longer than the name column, long enough to use
\* up the 76 columns, and private.
DumpNames ==
  {<<97>>, Rep(98, 12), Rep(99, 73), Rep(100, 74), Rep(101, 77), <<UNDERSCORE, 120>>}

\* repr() of the attribute values: '' ; text with runs of blanks, tabs and
\* newlines around and inside it; 66 characters; 67 characters once its
\* inner run of whitespace is collapsed.
DumpReprs ==
  {<<39, 39>>,
   <<SP, 97, SP, SP, 98, NL, TAB, 99, NL>>,
   Rep(120, 66),
   Rep(120, 40) \o <<SP, NL>> \o Rep(121, 26)}

DictsUpTo(n) ==
  UNION {[D -> DumpReprs] : D \in {D \in SUBSET DumpNames : Cardinality(D) <= n}}

IsSpace(c) == c \in {SP, TAB, NL, 13}

\* The k-th smallest element of a finite set of numbers, as a sequence.
Ascending(S) ==
  [k \in 1..Cardinality(S) |-> CHOOSE x \in S : Cardinality({y \in S : y < x}) = k - 1]

\* str.split(): the maximal runs of non-whitespace characters, in order.
split(r) ==
  LET starts == {i \in DOMAIN r : ~IsSpace(r[i]) /\ (i = 1 \/ IsSpace(r[i - 1]))}
      endOf(i) == CHOOSE j \in i..Len(r) :
                    /\ (j = Len(r) \/ IsSpace(r[j + 1]))
                    /\ \A k \in i..j : ~IsSpace(r[k])
      order == Ascending(starts)
  IN [k \in DOMAIN order |-> SubSeq(r, order[k], endOf(order[k]))]

\* " ".join(words)
RECURSIVE join(_)
join(words) ==
  IF words = <<>> THEN <<>>
  ELSE IF Len(words) = 1 THEN words[1]
  ELSE words[1] \o <<SP>> \o join(Tail(words))

\* s[:k] with Python's slice rules: a negative k counts from the end.
SliceTo(s, k) ==
  IF k >= 0 THEN SubSeq(s, 1, Min(k, Len(s))) ELSE SubSeq(s, 1, Max(Len(s) + k, 0))

\* wlen = 76-max(len(i),10)
wlen(i) == 76 - Max(Len(i), 10)

\* A faulty truncation: wlen characters are kept before the ellipsis.
truncate_keeping_wlen(r, w) ==
  IF Len(r) > w THEN SliceTo(r, w) \o <<DOT, DOT, DOT>> ELSE r

\* if len(r) > wlen: r = r[:wlen-3]+"..."
truncate(r, w) ==
  IF Len(r) > w THEN SliceTo(r, w - 3) \o <<DOT, DOT, DOT>> ELSE r

\* "%-10s = %s\n" % (i, r)
FormatLine(i, r) ==
  i \o Rep(SP, Max(10 - Len(i), 0)) \o <<SP, EQ, SP>> \o r \o <<NL>>

\* The order of Python strings: by the first differing character, a proper
\* prefix first.
StrLess(a, b) ==
  LET diff == {j \in 1..Min(Len(a), Len(b)) : a[j] # b[j]}
  IN IF diff = {}
     THEN Len(a) < Len(b)
     ELSE LET k == CHOOSE k \in diff : \A j \in diff : k <= j
          IN a[k] < b[k]

\* sorted(keys)
sorted(S) ==
  [k \in 1..Cardinality(S) |->
     CHOOSE x \in S : Cardinality({y \in S : StrLess(y, x)}) = k - 1]

\* getattr(self, i) for a plain attribute: the instance state first.
DumpValue(cls, ins, i) == IF i \in DOMAIN ins THEN ins[i] ELSE cls[i]

\* for i in keys: if i[0] != "_": the keys that get a line, in order.
Listed(keys) == SelectSeq(keys, LAMBDA i : i[1] # UNDERSCORE)

\* r = repr(getattr(self, i)); r = " ".join(r.split()); wlen = ...;
\* if len(r) > wlen: r = r[:wlen-3]+"..."
RenderValue(cls, ins, i) == truncate(join(split(DumpValue(cls, ins, i))), wlen(i))

\* s += "%-10s = %s\n" % (i, r), over the lines in order.
RECURSIVE Concat(_)
Concat(lines) ==
  IF lines = <<>> THEN <<>>
  ELSE FormatLine(lines[1].name, lines[1].value) \o Concat(Tail(lines))

\* ConfClass.__str__: keys = sorted(class dict updated with instance dict);
\* one line per key not starting with "_"; return s[:-1]. `lines` keeps the
\* (name, rendered value) pairs behind the text.
ConfClass__str__ ==
  \E keys \in {Listed(sorted(DOMAIN dumpCls \cup DOMAIN dumpInst))} :
    \E values \in {[i \in Range(keys) |-> RenderValue(dumpCls, dumpInst, i)]} :
      LET lines == [k \in DOMAIN keys |-> [name |-> keys[k], value |-> values[keys[k]]]]
      IN /\ dumpOut' = [s |-> SliceTo(Concat(lines), -1), lines |-> lines]
         /\ dumpDone' = TRUE
         /\ UNCHANGED <<dumpCls, dumpInst, flVars, numVars, confVars>>

\* The dumped object: a class with up to MaxAttrs attributes, an instance
\* with at most one attribute of its own, which may shadow a class one.
InitDump ==
  /\ dumpCls \in DictsUpTo(MaxAttrs)
  /\ dumpInst \in DictsUpTo(1)
  /\ dumpOut = [s |-> <<>>, lines |-> <<>>]
  /\ dumpDone = FALSE

InitNoDump ==
  /\ dumpCls = EmptyDict
  /\ dumpInst = EmptyDict
  /\ dumpOut = [s |-> <<>>, lines |-> <<>>]
  /\ dumpDone = FALSE

NextDump == ConfClass__str__

----------------------------------------------------------------------------
Init == InitFields /\ InitNum /\ InitConf /\ InitNoDump
InitWithDump == InitFields /\ InitNum /\ InitConf /\ InitDump

SpecFields == Init /\ [][NextFields]_vars
SpecNum    == Init /\ [][NextNum]_vars
SpecConf   == Init /\ [][NextConf]_vars
SpecIntercept == Init /\ [][NextIntercept]_vars
SpecGate   == Init /\ [][NextGate]_vars
SpecDump   == InitWithDump /\ [][NextDump]_vars

----------------------------------------------------------------------------
(* Properties of ConfigFieldList                                            *)

OwnersOf(f) == Range(ObjAttrs[f].owners)

\* C1: after every sequence of add / remove calls from the empty registry,
\* `layers` is exactly the union of `owners` over the members now in
\* `fields`: every present member's owners are in it, and an owner that only
\* removed members contributed is not.
C1_LayersAreOwnersOfPresent ==
  /\ \A f \in fields : OwnersOf(f) \subseteq layers
  /\ \A o \in layers : \E f \in fields : o \in OwnersOf(f)

\* A remove call has just taken out a member whose owner no remaining member
\* shares, and other members remain.
C1_Witness ==
  /\ flLast.op = "remove"
  /\ fields # {}
  /\ \E f \in flLast.pre \ fields :
        \E o \in OwnersOf(f) : o \in flLast.preLayers /\ o \notin layers

\* C8: after add(*members) the member set is the previous member set united
\* with exactly the arguments that expose `owners`; arguments without
\* `owners` are dropped, so an add of only non-field objects changes nothing,
\* and a member already present is not added a second time.
C8_AddUnitesFieldsOnly ==
  flLast.op = "add" =>
    /\ fields = flLast.pre \cup {f \in Range(flLast.args) : "owners" \in DOMAIN ObjAttrs[f]}
    /\ (\A i \in DOMAIN flLast.args : "owners" \notin DOMAIN ObjAttrs[flLast.args[i]])
          => fields = flLast.pre
    /\ Cardinality(fields) <= Cardinality(flLast.pre) + Cardinality(Range(flLast.args) \ flLast.pre)

\* An add call was given a non-field object together with a member that was
\* already present, on a registry holding other members too.
C8_Witness ==
  /\ flLast.op = "add"
  /\ \E i, j \in DOMAIN flLast.args :
        /\ "owners" \notin DOMAIN ObjAttrs[flLast.args[i]]
        /\ flLast.args[j] \in flLast.pre
  /\ Cardinality(flLast.pre) >= 2
  /\ fields = flLast.pre

----------------------------------------------------------------------------
(* Properties of Num2Layer                                                  *)

Lookup(item) == getitem(num2layer, layer2num, item)

\* C2: immediately after register(code, type), lookup(type) = code and
\* lookup(code) = type, and no entry for another code or another type has
\* changed; after register(c, t1) followed by register(c, t2) with t1 # t2,
\* lookup(c) = t2, lookup(t2) = c and lookup(t1) is still c.
C2_RegisterSetsPairOnly ==
  [][numLast'.op = "register" =>
       LET c == numLast'.code
           t == numLast'.layer
       IN /\ getitem(num2layer', layer2num', ByType(t)) = [raised |-> "-", code |-> c, layer |-> "-"]
          /\ getitem(num2layer', layer2num', ByCode(c)) = [raised |-> "-", code |-> 0, layer |-> t]
          /\ \A c2 \in Codes \ {c} :
                getitem(num2layer', layer2num', ByCode(c2)) = getitem(num2layer, layer2num, ByCode(c2))
          /\ \A t2 \in Types \ {t} :
                getitem(num2layer', layer2num', ByType(t2)) = getitem(num2layer, layer2num, ByType(t2))
          /\ (numLast.op = "register" /\ numLast.code = c /\ numLast.layer # t) =>
                getitem(num2layer', layer2num', ByType(numLast.layer)).code = c
  ]_vars

\* register(c, t1) was followed by register(c, t2), t1 # t2, on a registry
\* that already held another code.
C2_Witness ==
  /\ numLast.op = "register" /\ numPrev.op = "register"
  /\ numLast.code = numPrev.code /\ numLast.layer # numPrev.layer
  /\ Lookup(ByType(numPrev.layer)).code = numLast.code
  /\ Lookup(ByCode(numLast.code)).layer = numLast.layer
  /\ \E c \in DOMAIN num2layer : c # numLast.code

\* C3 as claimed: in every state reachable by register calls, the two maps
\* agree in both directions for every code and every type.
C3_BothDirectionsAgree ==
  /\ \A c \in DOMAIN num2layer :
        num2layer[c] \in DOMAIN layer2num /\ layer2num[num2layer[c]] = c
  /\ \A t \in DOMAIN layer2num :
        layer2num[t] \in DOMAIN num2layer /\ num2layer[layer2num[t]] = t

\* C3 as amended: after every register(code, type) call the two maps agree
\* on the pair just registered, and in every reachable state each map's
\* values are keys of the other map; entries of earlier registrations that
\* shared the code or the type stay in the other map and may disagree.
C3_LastPairAgreesAndClosed ==
  /\ numLast.op = "register" =>
        /\ numLast.code \in DOMAIN num2layer /\ numLast.layer \in DOMAIN layer2num
        /\ layer2num[num2layer[numLast.code]] = numLast.code
        /\ num2layer[layer2num[numLast.layer]] = numLast.layer
  /\ \A c \in DOMAIN num2layer : num2layer[c] \in DOMAIN layer2num
  /\ \A t \in DOMAIN layer2num : layer2num[t] \in DOMAIN num2layer

\* A register call has just overwritten a code whose earlier type is still
\* in the type->code map, pointing at that code.
C3_Witness ==
  /\ numLast.op = "register"
  /\ \E t \in DOMAIN layer2num :
        t # numLast.layer /\ layer2num[t] = numLast.code /\ num2layer[numLast.code] # t

----------------------------------------------------------------------------
(* Properties of the configuration object                                   *)

\* The storage key behind a setting's public name.
KeyOf(name) ==
  IF name = "logLevel" THEN "_logLevel"
  ELSE IF name \in InterceptedAttrs THEN intname(name) ELSE name

\* What reading a setting yields when nothing is stored for it and the
\* class supplies a default.
DefaultOf(name) ==
  IF name \in InterceptedAttrs THEN InterceptorDefault[name] ELSE ClassDefaults[name]

Settings == PlainAttrs \cup InterceptedAttrs \cup {"logLevel"}

\* After target.configure(other), every attribute in other's instance state
\* reads on target as other's value, by its raw name and through its
\* descriptor.
ReadsOthersValues(t, o) ==
  /\ \A k \in DOMAIN inst[o] :
       k \in DOMAIN inst[t] /\ getattr(inst[t], k) = [raised |-> "-", val |-> inst[o][k]]
  /\ \A a \in Settings :
       KeyOf(a) \in DOMAIN inst[o] =>
         getattr(inst[t], a) = [raised |-> "-", val |-> inst[o][KeyOf(a)]]

NeverSet(a) == KeyOf(a) \notin cLast.preKeys /\ KeyOf(a) \notin DOMAIN inst[cLast.other]

\* C4 as claimed: after target.configure(other), an attribute in other's
\* instance state reads on target as other's value, and an attribute set on
\* neither instance reads as the class-level default.
C4_ConfigureThenRead ==
  cLast.op = "configure" =>
    /\ ReadsOthersValues(cLast.obj, cLast.other)
    /\ \A a \in Settings :
         NeverSet(a) =>
           /\ getattr(inst[cLast.obj], a).raised = "-"
           /\ a # "logLevel" => getattr(inst[cLast.obj], a).val = DefaultOf(a)

\* C4 as amended: the same, except that the log-level field has no
\* class-level default: when no level is stored on either instance, reading
\* it on target raises AttributeError.
C4_ConfigureThenReadExceptLogLevel ==
  cLast.op = "configure" =>
    /\ ReadsOthersValues(cLast.obj, cLast.other)
    /\ \A a \in Settings \ {"logLevel"} :
         NeverSet(a) => getattr(inst[cLast.obj], a) = [raised |-> "-", val |-> DefaultOf(a)]
    /\ NeverSet("logLevel") => getattr(inst[cLast.obj], "logLevel").raised = "AttributeError"

\* cnf was configured from conf, which carried a level, a prompt and the
\* capability flag, while the color theme was set on neither.
C4_Witness ==
  /\ cLast.op = "configure" /\ cLast.obj = "cnf" /\ cLast.other = "conf"
  /\ {"_logLevel", "_intercepted_prompt", "crypto_valid"} \subseteq DOMAIN inst["conf"]
  /\ inst["conf"]["crypto_valid"] /\ inst["conf"]["_intercepted_prompt"] = "$ "
  /\ cLast.preKeys = {}
  /\ NeverSet("color_theme")

\* C5: on one owning object, under reads and writes of an intercepted
\* setting: a write invokes the callback exactly once, with the setting's
\* name and the written value, when that value is already stored; a read
\* invokes no callback; and every read returns the value last written, or
\* the default when none was.
C5_WriteCallsHookOnceAfterStore ==
  /\ cLast.op = "Interceptor.__set__" =>
       trace = <<[call |-> "hook", name |-> cLast.name, val |-> cLast.val,
                  readable |-> cLast.val]>>
  /\ cLast.op = "Interceptor.__get__" =>
       /\ trace = <<>>
       /\ cLast.val = IF lastWrite[cLast.obj][cLast.name] = "<none>"
                      THEN InterceptorDefault[cLast.name]
                      ELSE lastWrite[cLast.obj][cLast.name]
  /\ \A o \in Mutable, a \in InterceptedAttrs :
       getattr(inst[o], a).val = IF lastWrite[o][a] = "<none>"
                                 THEN InterceptorDefault[a]
                                 ELSE lastWrite[o][a]

\* cnf.prompt was read after a write of a non-default value, while the
\* global conf, never written, holds the defaults the callback materialised.
C5_Witness ==
  /\ cLast.op = "Interceptor.__get__" /\ cLast.obj = "cnf" /\ cLast.name = "prompt"
  /\ cLast.val = "$ " /\ lastWrite["cnf"]["prompt"] = "$ "
  /\ lastWrite["conf"]["prompt"] = "<none>"
  /\ "_intercepted_prompt" \in DOMAIN inst["conf"]

\* C6: writing a valid level L to the log-level field sets the logger's
\* threshold to L, and the next read of the field on that object returns L.
C6_LogLevelWrite ==
  (cLast.op = "LogLevel.__set__" /\ setLevelAccepts(cLast.val)) =>
    /\ cLast.raised = "-"
    /\ threshold = cLast.val
    /\ getattr(inst[cLast.obj], "logLevel") = [raised |-> "-", val |-> cLast.val]

\* A level was written on cnf that differs from the level conf holds.
C6_Witness ==
  /\ cLast.op = "LogLevel.__set__" /\ cLast.obj = "cnf" /\ cLast.val = 10
  /\ threshold = 10
  /\ "_logLevel" \in DOMAIN inst["conf"] /\ inst["conf"]["_logLevel"] = 30

\* C10: target.configure(other) changes only target's instance state: the
\* logger's threshold and sys.ps1 stay as they were, no setLevel call and no
\* interceptor callback is made, and every other object's instance state,
\* other's included, is unchanged.
C10_ConfigureFrame ==
  [][cLast'.op = "configure" =>
       /\ threshold' = threshold
       /\ ps1' = ps1
       /\ trace' = <<>>
       /\ inst'[cLast'.other] = inst[cLast'.other]
       /\ \A o \in Objs \ {cLast'.obj} : inst'[o] = inst[o]
       /\ inst'[cLast'.obj] = inst[cLast'.other]
  ]_vars

\* After configure, target's log-level field reads other's level, which is
\* not the logger's threshold, and target carries other's prompt.
C10_Witness ==
  /\ cLast.op = "configure" /\ cLast.obj # cLast.other
  /\ getattr(inst[cLast.obj], "logLevel").raised = "-"
  /\ getattr(inst[cLast.obj], "logLevel").val # threshold
  /\ getattr(inst[cLast.obj], "logLevel") = getattr(inst[cLast.other], "logLevel")
  /\ "_intercepted_prompt" \in DOMAIN inst[cLast.obj]

\* C7: a call of a gated function while conf.crypto_valid is false raises
\* ImportError and does not run the wrapped body; while it is true, the
\* wrapped function runs once with the same arguments and its result is
\* returned. The flag is the one at the call, not the one at decoration.
C7_GateChecksFlagAtCall ==
  cLast.op = "func_in" =>
    IF getattr(inst["conf"], "crypto_valid").val
    THEN /\ cLast.raised = "-"
         /\ trace = <<[call |-> "body", func |-> cLast.func, args |-> cLast.args]>>
         /\ cLast.result = func(cLast.func, cLast.args)
    ELSE /\ cLast.raised = "ImportError"
         /\ trace = <<>>

\* A function decorated while the flag was false was called, with two
\* arguments, after the flag became true, and ran.
C7_Witness ==
  /\ cLast.op = "func_in" /\ cLast.raised = "-"
  /\ ~gated[cLast.func]
  /\ cLast.args = <<1, 2>> /\ cLast.result = 3

----------------------------------------------------------------------------
(* Properties of the formatted dump                                         *)

\* The value column as the claim words it: r unchanged when it fits the
\* budget b, otherwise its first b-3 characters followed by "...".
Rendered(r, b) ==
  IF Len(r) <= b THEN r ELSE [k \in 1..(b - 3) |-> r[k]] \o <<DOT, DOT, DOT>>

Budget(n) == 76 - Max(Len(n), 10)

Visible == {n \in DOMAIN dumpCls \cup DOMAIN dumpInst : n[1] # UNDERSCORE}

Collapsed(n) == join(split(DumpValue(dumpCls, dumpInst, n)))

DumpShape ==
  /\ {dumpOut.lines[k].name : k \in DOMAIN dumpOut.lines} = Visible
  /\ Len(dumpOut.lines) = Cardinality(Visible)
  /\ \A k \in 1..(Len(dumpOut.lines) - 1) :
       StrLess(dumpOut.lines[k].name, dumpOut.lines[k + 1].name)

\* C9 as claimed: every listed setting's value is rendered as r when
\* len(r) <= B = 76 - max(len(n), 10) and as r's first B-3 characters plus
\* "..." otherwise, never longer than B; names starting with an underscore
\* are omitted and the lines are sorted by name.
C9_ValueFitsBudget ==
  dumpDone =>
    /\ DumpShape
    /\ \A k \in DOMAIN dumpOut.lines :
         LET n == dumpOut.lines[k].name
         IN /\ dumpOut.lines[k].value = Rendered(Collapsed(n), Budget(n))
            /\ Len(dumpOut.lines[k].value) <= Budget(n)

\* C9 as amended: the same for every listed setting whose name is at most
\* 73 characters long, that is whose budget B is at least 3.
C9_ValueFitsBudgetForNamesUpTo73 ==
  dumpDone =>
    /\ DumpShape
    /\ \A k \in DOMAIN dumpOut.lines :
         LET n == dumpOut.lines[k].name
         IN Len(n) <= 73 =>
              /\ dumpOut.lines[k].value = Rendered(Collapsed(n), Budget(n))
              /\ Len(dumpOut.lines[k].value) <= Budget(n)

\* A dump with a private name left out, one value cut to its budget with
\* the ellipsis and one value that fits after its whitespace collapsed.
C9_Witness ==
  /\ dumpDone
  /\ \E n \in DOMAIN dumpCls \cup DOMAIN dumpInst : n[1] = UNDERSCORE
  /\ Len(dumpOut.lines) = 2
  /\ Len(dumpOut.lines[1].value) = Budget(dumpOut.lines[1].name)
  /\ SubSeq(dumpOut.lines[1].value, Budget(dumpOut.lines[1].name) - 2,
            Budget(dumpOut.lines[1].name)) = <<DOT, DOT, DOT>>
  /\ dumpOut.lines[2].value = <<97, SP, 98, SP, 99>>

====
